---- MODULE Spec2Model ----
(***************************************************************************)
(* Model of run.py: CSV of saved places -> GeoJSON FeatureCollection,      *)
(* enriched through the Places API (Find Place, then Place Details).       *)
(*                                                                         *)
(* Text values (titles, URLs, names) are sequences of tokens: a token is   *)
(* a character (" ", "+", a letter) or one of the substrings the code      *)
(* searches for ("/place/", "?", "/data=").  Python None is the empty      *)
(* tuple and a present value x is the one-element tuple <<x>>.             *)
(***************************************************************************)
EXTENDS Integers, Sequences, FiniteSets, TLC

\* ------------------------------------------------------------------ bounds
\* Largest number of data rows in the input CSV.
MaxRows == 4

\* run.py:32 sets API_REQUEST_LIMIT = 1000.  The model runs the same guards
\* against a small cap so that a CSV of MaxRows rows can reach it.
API_REQUEST_LIMIT == 3

\* ------------------------------------------------------------------ values
None == <<>>
Some(x) == <<x>>

Range(s) == {s[k] : k \in 1..Len(s)}

\* str.strip(): drop leading and trailing whitespace
RECURSIVE LStrip(_)
LStrip(s) == IF s # <<>> /\ Head(s) = " " THEN LStrip(Tail(s)) ELSE s

RECURSIVE RStrip(_)
RStrip(s) == IF s # <<>> /\ s[Len(s)] = " " THEN RStrip(SubSeq(s, 1, Len(s) - 1)) ELSE s

Strip(s) == RStrip(LStrip(s))

\* s.split(tok)[0]
BeforeFirst(s, tok) ==
    IF tok \notin Range(s) THEN s
    ELSE LET k == CHOOSE k \in 1..Len(s) : s[k] = tok /\ \A j \in 1..(k - 1) : s[j] # tok
         IN  SubSeq(s, 1, k - 1)

\* s.split(tok)[-1]
AfterLast(s, tok) ==
    IF tok \notin Range(s) THEN s
    ELSE LET k == CHOOSE k \in 1..Len(s) : s[k] = tok /\ \A j \in (k + 1)..Len(s) : s[j] # tok
         IN  SubSeq(s, k + 1, Len(s))

\* s.replace("+", " ")
PlusToSpace(s) == [k \in 1..Len(s) |-> IF s[k] = "+" THEN " " ELSE s[k]]

\* urllib.parse.quote_plus on the model's tokens
QuotePlus(s) ==
    [k \in 1..Len(s) |-> CASE s[k] = " " -> "+"
                           [] s[k] = "+" -> "%2B"
                           [] s[k] = "?" -> "%3F"
                           [] OTHER -> s[k]]

\* row.get(col) or "" followed by .strip()
Cell(row, col) == Strip(IF row[col] = None THEN <<>> ELSE row[col][1])

\* ------------------------------------------------------------------ inputs
MAPS == "https://www.google.com/maps"

\* The CSV rows the model draws from (Title, URL as DictReader yields them).
RowSet ==
    { [Title |-> Some(<<" ">>),      URL |-> None],
      [Title |-> Some(<<"T">>),      URL |-> Some(<<>>)],
      [Title |-> Some(<<>>),         URL |-> Some(<<MAPS, "?", "c">>)],
      [Title |-> Some(<<" ", "S">>), URL |-> Some(<<MAPS, "/place/", "N", "+", "N", "/data=", "x">>)],
      [Title |-> Some(<<>>),         URL |-> Some(<<MAPS, "/place/", "+", " ">>)] }

CsvFiles == UNION { [1..n -> RowSet] : n \in 0..MaxRows }

\* JSON bodies of the Find Place endpoint
FindResponses ==
    { [status |-> "OK",           candidates |-> <<[place_id |-> Some("p1")]>>],
      [status |-> "OK",           candidates |-> <<[place_id |-> None]>>],
      [status |-> "OK",           candidates |-> <<>>],
      [status |-> "ZERO_RESULTS", candidates |-> <<>>] }

Location(lat, lng) == Some([location |-> Some([lat |-> lat, lng |-> lng])])

\* JSON bodies of the Place Details endpoint
DetailsResponses ==
    { [status |-> "OK",
       result |-> Some([geometry |-> Location(Some(52), Some(4)),
                        formatted_address |-> Some("Westdam 59"),
                        name |-> Some(<<"N">>),
                        address_components |->
                            << [types |-> <<"locality">>, short_name |-> "WRD"],
                               [types |-> <<"country", "political">>, short_name |-> "NL"] >>])],
      [status |-> "OK",
       result |-> Some([geometry |-> Location(Some(0), Some(0)),
                        formatted_address |-> None,
                        name |-> None,
                        address_components |-> <<>>])],
      [status |-> "OK",
       result |-> Some([geometry |-> Location(None, Some(4)),
                        formatted_address |-> None,
                        name |-> None,
                        address_components |-> <<>>])],
      [status |-> "OK",
       result |-> Some([geometry |-> Some([location |-> None]),
                        formatted_address |-> None,
                        name |-> None,
                        address_components |-> <<>>])],
      [status |-> "OK",
       result |-> Some([geometry |-> None,
                        formatted_address |-> Some("Westdam 59"),
                        name |-> Some(<<"N">>),
                        address_components |-> <<>>])],
      [status |-> "NOT_FOUND", result |-> None] }


\* ------------------------------------------------------------- find_place_id
\* name_from_url of find_place_id: the decoded place name of the URL path
NameFromUrl(maps_url) ==
    IF maps_url # <<>> /\ "/place/" \in Range(maps_url)
    THEN LET path == BeforeFirst(maps_url, "?")
             part == BeforeFirst(AfterLast(path, "/place/"), "/data=")
         IN  IF part # <<>> THEN Some(Strip(PlusToSpace(part))) ELSE None
    ELSE None

\* query = (name_from_url or title or "").strip()
FindQuery(title, maps_url) ==
    LET n == NameFromUrl(maps_url)
    IN  Strip(IF n # None /\ n[1] # <<>> THEN n[1] ELSE title)

\* the place_id find_place_id returns for a JSON body
FindPlaceIdOf(data) ==
    IF data.status # "OK" \/ data.candidates = <<>>
    THEN None
    ELSE data.candidates[1].place_id

\* --------------------------------------------------------- get_place_details
RECURSIVE CountryCode(_)
CountryCode(comps) ==
    IF comps = <<>> THEN None
    ELSE IF "country" \in Range(Head(comps).types)
         THEN Some(Head(comps).short_name)
         ELSE CountryCode(Tail(comps))

\* get_place_details with `not lat or not lng` in place of the `is None` tests:
\* a zero latitude or longitude read as a missing one
DetailsOf_ZeroIsMissing(data) ==
    IF data.status # "OK" \/ data.result = None THEN None
    ELSE LET result == data.result[1]
             geom == result.geometry
         IN  IF geom = None \/ geom[1].location = None THEN None
             ELSE LET loc == geom[1].location[1]
                  IN  IF loc.lat = None \/ loc.lng = None \/ loc.lat = Some(0) \/ loc.lng = Some(0)
                      THEN None
                      ELSE Some([lat |-> loc.lat[1],
                                 lng |-> loc.lng[1],
                                 address |-> IF result.formatted_address = None THEN ""
                                             ELSE result.formatted_address[1],
                                 name |-> IF result.name = None THEN <<>> ELSE result.name[1],
                                 country_code |-> CountryCode(result.address_components)])

\* the dict get_place_details returns for a JSON body, or None
DetailsOf(data) ==
    IF data.status # "OK" \/ data.result = None THEN None
    ELSE LET result == data.result[1]
             geom == result.geometry
         IN  IF geom = None \/ geom[1].location = None THEN None
             ELSE LET loc == geom[1].location[1]
                  IN  IF loc.lat = None \/ loc.lng = None THEN None
                      ELSE Some([lat |-> loc.lat[1],
                                 lng |-> loc.lng[1],
                                 address |-> IF result.formatted_address = None THEN ""
                                             ELSE result.formatted_address[1],
                                 name |-> IF result.name = None THEN <<>> ELSE result.name[1],
                                 country_code |-> CountryCode(result.address_components)])

\* ------------------------------------------------------------- build_feature
NOW_ISO == "2024-01-01T00:00:00Z"
NO_LOCATION == "No location information is available for this saved place"
QUERY_URL == "http://maps.google.com/?q="

BuildFeature(row, det) ==
    LET title == Cell(row, "Title")
        url == Cell(row, "URL")
        coords == IF det # None THEN <<det[1].lng, det[1].lat>> ELSE <<0, 0>>
        props ==
            IF det # None
            THEN [date |-> NOW_ISO,
                  google_maps_url |-> IF url # <<>> THEN url ELSE <<QUERY_URL>> \o QuotePlus(title),
                  name |-> IF det[1].name # <<>> THEN det[1].name ELSE title,
                  location |-> IF det[1].country_code # None /\ det[1].country_code[1] # ""
                               THEN [address |-> det[1].address,
                                     country_code |-> det[1].country_code[1]]
                               ELSE [address |-> det[1].address]]
            ELSE IF title # <<>>
                 THEN [date |-> NOW_ISO, google_maps_url |-> url,
                       Comment |-> NO_LOCATION, name |-> title]
                 ELSE [date |-> NOW_ISO, google_maps_url |-> url,
                       Comment |-> NO_LOCATION]
    IN  [type |-> "Feature",
         geometry |-> [type |-> "Point", coordinates |-> coords],
         properties |-> props]


\* ------------------------------------------------------------------- state
VARIABLES
    pc,             \* position in main()
    csv,            \* the data rows of the CSV file the dialog may select
    csv_path,       \* main: csv_path
    geojson_path,   \* main: geojson_path
    api_key,        \* main: api_key
    rows,           \* main: rows
    i,              \* main: loop index over rows (0-based)
    features,       \* main: features
    request_count,  \* main: request_count
    limit_reached,  \* main: limit_reached
    place_id,       \* main: place_id of the current row
    details,        \* main: details of the current row
    outfile,        \* content of the file at geojson_path, None until written
    log             \* history of calls, HTTP requests, sleeps, appends and writes

vars == <<pc, csv, csv_path, geojson_path, api_key, rows, i, features,
          request_count, limit_reached, place_id, details, outfile, log>>

\* one entry of the history: what happened, for which row index, with which HTTP body
Event(e, row, resp) == [e |-> e, row |-> row, resp |-> resp]

\* the filter left out: every row kept
KeepRow_All(row) == TRUE

\* the filter with `or` for `and`: a row needs both a Title and a URL
KeepRow_Both(row) == Cell(row, "Title") # <<>> /\ Cell(row, "URL") # <<>>

\* the CSV filter of main: rows with blank Title and blank URL are skipped
KeepRow(row) == ~(Cell(row, "Title") = <<>> /\ Cell(row, "URL") = <<>>)

ReadRows(file) == SelectSeq(file, KeepRow)

\* the guard with <= for <
UnderLimit_OffByOne(count) == count <= API_REQUEST_LIMIT

\* request_count < API_REQUEST_LIMIT
UnderLimit(count) == count < API_REQUEST_LIMIT

\* the place_id test left out
HasPlaceId_Always(pid) == TRUE

\* truth value of place_id
HasPlaceId(pid) == pid # None /\ pid[1] # ""

\* the elif branch left out
DetailsCapped_Never(pid, count) == FALSE

\* the elif branch after find_place_id: a place_id was found but the cap forbids Place Details
DetailsCapped(pid, count) == ~(HasPlaceId(pid) /\ UnderLimit(count)) /\ HasPlaceId(pid)

\* if not details and i > 0: time.sleep(REQUEST_DELAY_S)
TailSleep(det, idx) == det = None /\ idx > 0

Init ==
    /\ pc = "ask_input"
    /\ csv \in CsvFiles
    /\ csv_path = None
    /\ geojson_path = None
    /\ api_key = None
    /\ rows = <<>>
    /\ i = 0
    /\ features = <<>>
    /\ request_count = 0
    /\ limit_reached = FALSE
    /\ place_id = None
    /\ details = None
    /\ outfile = None
    /\ log = <<>>

\* csv_path = ask_input_csv_path(); return when the dialog is cancelled
AskInput ==
    /\ pc = "ask_input"
    /\ \E path \in {None, Some("in.csv")} :
         /\ csv_path' = path
         /\ pc' = IF path = None THEN "exit" ELSE "ask_output"
    /\ UNCHANGED <<csv, geojson_path, api_key, rows, i, features, request_count,
                   limit_reached, place_id, details, outfile, log>>

\* geojson_path = ask_output_geojson_path(...); return when the dialog is cancelled
AskOutput ==
    /\ pc = "ask_output"
    /\ \E path \in {None, Some("out.geojson")} :
         /\ geojson_path' = path
         /\ pc' = IF path = None THEN "exit" ELSE "get_api_key"
    /\ UNCHANGED <<csv, csv_path, api_key, rows, i, features, request_count,
                   limit_reached, place_id, details, outfile, log>>

\* api_key = get_api_key(): SystemExit when neither environment variable is set
GetApiKey ==
    /\ pc = "get_api_key"
    /\ \E key \in {None, Some(""), Some("K")} :
         IF key = None \/ key = Some("")
         THEN pc' = "exit" /\ UNCHANGED api_key
         ELSE pc' = "read_csv" /\ api_key' = key
    /\ UNCHANGED <<csv, csv_path, geojson_path, rows, i, features, request_count,
                   limit_reached, place_id, details, outfile, log>>

\* the CSV is read and filtered; features, request_count, limit_reached are initialised
ReadCsv ==
    /\ pc = "read_csv"
    /\ rows' = ReadRows(csv)
    /\ features' = <<>>
    /\ request_count' = 0
    /\ limit_reached' = FALSE
    /\ i' = 0
    /\ pc' = "row"
    /\ UNCHANGED <<csv, csv_path, geojson_path, api_key, place_id, details, outfile, log>>

\* head of the loop body with the cap not reached: find_place_id is called next
RowStart ==
    /\ pc = "row"
    /\ i < Len(rows)
    /\ UnderLimit(request_count)
    /\ details' = None
    /\ pc' = "find"
    /\ UNCHANGED <<csv, csv_path, geojson_path, api_key, rows, i, features, request_count,
                   limit_reached, place_id, outfile, log>>

\* head of the loop body with the cap reached: limit_reached = True, no lookup
RowCapped ==
    /\ pc = "row"
    /\ i < Len(rows)
    /\ ~UnderLimit(request_count)
    /\ details' = None
    /\ limit_reached' = TRUE
    /\ pc' = "tail"
    /\ UNCHANGED <<csv, csv_path, geojson_path, api_key, rows, i, features, request_count,
                   place_id, outfile, log>>

\* what main does with the place_id find_place_id returned
AfterFind(pid, called) ==
    /\ place_id' = pid
    /\ request_count' = request_count + 1
    /\ IF HasPlaceId(pid) /\ UnderLimit(request_count + 1)
       THEN /\ log' = called \o <<Event("sleep", i, None)>>
            /\ pc' = "details"
            /\ UNCHANGED limit_reached
       ELSE /\ log' = called
            /\ pc' = "tail"
            /\ limit_reached' = (limit_reached \/ DetailsCapped(pid, request_count + 1))

\* find_place_id with an empty query: returns None without an HTTP request
FindPlaceNoQuery ==
    /\ pc = "find"
    /\ FindQuery(Cell(rows[i + 1], "Title"), Cell(rows[i + 1], "URL")) = <<>>
    /\ AfterFind(None, log \o <<Event("find_call", i, None)>>)
    /\ UNCHANGED <<csv, csv_path, geojson_path, api_key, rows, i, features, details, outfile>>

\* find_place_id: the request is answered with a JSON body
FindPlace ==
    /\ pc = "find"
    /\ FindQuery(Cell(rows[i + 1], "Title"), Cell(rows[i + 1], "URL")) # <<>>
    /\ \E data \in FindResponses :
         AfterFind(FindPlaceIdOf(data),
                   log \o <<Event("find_call", i, None), Event("find_req", i, data)>>)
    /\ UNCHANGED <<csv, csv_path, geojson_path, api_key, rows, i, features, details, outfile>>

\* find_place_id: requests.get or raise_for_status raises; nothing in main catches it
FindPlaceRaises ==
    /\ pc = "find"
    /\ FindQuery(Cell(rows[i + 1], "Title"), Cell(rows[i + 1], "URL")) # <<>>
    /\ log' = log \o <<Event("find_call", i, None), Event("find_err", i, None)>>
    /\ pc' = "crashed"
    /\ UNCHANGED <<csv, csv_path, geojson_path, api_key, rows, i, features, request_count,
                   limit_reached, place_id, details, outfile>>

\* get_place_details: the request is answered with a JSON body
GetPlaceDetails ==
    /\ pc = "details"
    /\ \E data \in DetailsResponses :
         /\ details' = DetailsOf(data)
         /\ log' = log \o <<Event("details_req", i, data)>>
    /\ request_count' = request_count + 1
    /\ pc' = "tail"
    /\ UNCHANGED <<csv, csv_path, geojson_path, api_key, rows, i, features,
                   limit_reached, place_id, outfile>>

\* get_place_details: requests.get or raise_for_status raises
GetPlaceDetailsRaises ==
    /\ pc = "details"
    /\ log' = log \o <<Event("details_err", i, None)>>
    /\ pc' = "crashed"
    /\ UNCHANGED <<csv, csv_path, geojson_path, api_key, rows, i, features, request_count,
                   limit_reached, place_id, details, outfile>>

\* end of the loop body: the optional sleep, then features.append(build_feature(...))
RowTail ==
    /\ pc = "tail"
    /\ features' = Append(features, BuildFeature(rows[i + 1], details))
    /\ log' = log \o (IF TailSleep(details, i) THEN <<Event("sleep", i, None)>> ELSE <<>>)
                  \o <<Event("append", i, None)>>
    /\ i' = i + 1
    /\ pc' = "row"
    /\ UNCHANGED <<csv, csv_path, geojson_path, api_key, rows, request_count,
                   limit_reached, place_id, details, outfile>>

\* after the loop: json.dump of the FeatureCollection to geojson_path
WriteGeoJson ==
    /\ pc = "row"
    /\ i >= Len(rows)
    /\ outfile' = Some([type |-> "FeatureCollection", features |-> features])
    /\ log' = log \o <<Event("write", i, None)>>
    /\ pc' = "done"
    /\ UNCHANGED <<csv, csv_path, geojson_path, api_key, rows, i, features, request_count,
                   limit_reached, place_id, details>>

Next ==
    \/ AskInput
    \/ AskOutput
    \/ GetApiKey
    \/ ReadCsv
    \/ RowStart
    \/ RowCapped
    \/ FindPlaceNoQuery
    \/ FindPlace
    \/ FindPlaceRaises
    \/ GetPlaceDetails
    \/ GetPlaceDetailsRaises
    \/ RowTail
    \/ WriteGeoJson

Spec == Init /\ [][Next]_vars


\* ------------------------------------------------------- reading the history
IsRequest(ev) == ev.e \in {"find_req", "find_err", "details_req", "details_err"}

Requests == {k \in DOMAIN log : IsRequest(log[k])}

NumRequests == Cardinality(Requests)

Happened(e, r) == \E k \in DOMAIN log : log[k].e = e /\ log[k].row = r

\* a Find Place body that carries a usable place_id
GoodFind(data) ==
    /\ data.status = "OK"
    /\ data.candidates # <<>>
    /\ data.candidates[1].place_id \notin {None, Some("")}

\* a Place Details body that carries status OK and both coordinates
GoodDetails(data) ==
    /\ data.status = "OK"
    /\ data.result # None
    /\ data.result[1].geometry # None
    /\ data.result[1].geometry[1].location # None
    /\ data.result[1].geometry[1].location[1].lat # None
    /\ data.result[1].geometry[1].location[1].lng # None

FoundPlaceId(r) ==
    \E k \in DOMAIN log : log[k].e = "find_req" /\ log[k].row = r /\ GoodFind(log[k].resp)

\* both lookup steps of row r succeeded
Located(r) ==
    /\ FoundPlaceId(r)
    /\ \E k \in DOMAIN log :
         log[k].e = "details_req" /\ log[k].row = r /\ GoodDetails(log[k].resp)

\* some lookup step of row r failed: an exception, a non-OK status or a missing field
LookupFailed(r) ==
    \E k \in DOMAIN log :
        /\ log[k].row = r
        /\ \/ log[k].e \in {"find_err", "details_err"}
           \/ log[k].e = "find_req" /\ ~GoodFind(log[k].resp)
           \/ log[k].e = "details_req" /\ ~GoodDetails(log[k].resp)

Unlocated(f) ==
    /\ f.geometry.coordinates = <<0, 0>>
    /\ "Comment" \in DOMAIN f.properties
    /\ f.properties.Comment = NO_LOCATION
    /\ "location" \notin DOMAIN f.properties

Ended == pc \in {"done", "crashed"}

\* ------------------------------------------------------------------- claims

\* C1: the number of API requests issued and the counter request_count never
\* exceed API_REQUEST_LIMIT.
C1_RequestCap ==
    /\ request_count <= API_REQUEST_LIMIT
    /\ NumRequests <= API_REQUEST_LIMIT

\* C1 witness: a finished run that sent API_REQUEST_LIMIT requests and then met the cap
C1_Witness ==
    /\ pc = "done"
    /\ NumRequests = API_REQUEST_LIMIT
    /\ request_count = API_REQUEST_LIMIT
    /\ limit_reached

\* C2: a row whose lookup fails (exception, non-OK status, missing field) is
\* emitted as an unlocated feature, the run goes on and the FeatureCollection
\* is written.
C2_FailedLookupDegrades ==
    \A r \in 0..(Len(rows) - 1) :
        LookupFailed(r) =>
            /\ pc # "crashed"
            /\ pc = "done" =>
                 /\ outfile # None
                 /\ Len(outfile[1].features) = Len(rows)
                 /\ Unlocated(outfile[1].features[r + 1])

\* text in a raw CSV cell other than whitespace
HasText(cell) == cell # None /\ \E k \in DOMAIN cell[1] : cell[1][k] # " "

NonBlank(row) == HasText(row.Title) \/ HasText(row.URL)

\* feature f carries the URL of the row, or else its title
Matches(f, row) ==
    LET title == Cell(row, "Title")
        url == Cell(row, "URL")
    IN  IF url # <<>> THEN f.properties.google_maps_url = url
        ELSE IF "Comment" \in DOMAIN f.properties
             THEN "name" \in DOMAIN f.properties /\ f.properties.name = title
             ELSE f.properties.google_maps_url = <<QUERY_URL>> \o QuotePlus(title)

InOrder(fs, rs) == Len(fs) = Len(rs) /\ \A k \in DOMAIN fs : Matches(fs[k], rs[k])

\* C3 as stated: the written FeatureCollection has one feature for every data
\* row of the CSV, blank rows included, in row order.
C3_OnePerCsvRow ==
    outfile # None => InOrder(outfile[1].features, csv)

\* C3 amended: the written FeatureCollection has one feature for every data
\* row whose Title or URL is not blank, in row order, and none for the others.
C3_OnePerNonBlankRow ==
    outfile # None => InOrder(outfile[1].features, SelectSeq(csv, NonBlank))

\* C3 witness: a written file of a CSV that holds a blank row among other rows
C3_Witness ==
    /\ outfile # None
    /\ Len(outfile[1].features) >= 2
    /\ Len(csv) > Len(outfile[1].features)
    /\ ~NonBlank(csv[2])

\* the Place Details body of row r
DetailsBody(r) ==
    LET k == CHOOSE k \in DOMAIN log : log[k].e = "details_req" /\ log[k].row = r
    IN  log[k].resp.result[1]

\* C4: a feature has the coordinates [lng, lat] of the Place Details result and
\* no Comment iff both lookup steps of its row succeeded; otherwise it has
\* coordinates [0, 0], the Comment and no location.
C4_LocatedIffBothSucceeded ==
    \A k \in DOMAIN features :
        LET f == features[k]
        IN  IF Located(k - 1)
            THEN /\ f.geometry.coordinates =
                        << DetailsBody(k - 1).geometry[1].location[1].lng[1],
                           DetailsBody(k - 1).geometry[1].location[1].lat[1] >>
                 /\ "Comment" \notin DOMAIN f.properties
            ELSE Unlocated(f)

\* C4 witness: a finished run with a located feature at latitude 0, longitude 0,
\* and an unlocated feature of a row whose Find Place body carried no place_id
C4_Witness ==
    /\ pc = "done"
    /\ \E k \in DOMAIN features :
         /\ Located(k - 1)
         /\ features[k].geometry.coordinates = <<0, 0>>
         /\ "Comment" \notin DOMAIN features[k].properties
    /\ \E k \in DOMAIN features :
         /\ Happened("find_req", k - 1)
         /\ ~FoundPlaceId(k - 1)
         /\ Unlocated(features[k])

\* C5: per row at most one Find Place and one Place Details request; Place
\* Details only after the row's Find Place returned a place_id; no request of a
\* row before the feature of the previous row is appended.
C5_TwoStepNoRetry ==
    /\ \A j, k \in Requests :
         (j # k /\ log[j].row = log[k].row) =>
             (log[j].e \in {"find_req", "find_err"}) # (log[k].e \in {"find_req", "find_err"})
    /\ \A k \in Requests :
         log[k].e \in {"details_req", "details_err"} =>
             \E j \in 1..(k - 1) :
                 log[j].e = "find_req" /\ log[j].row = log[k].row /\ GoodFind(log[j].resp)
    /\ \A k \in Requests :
         log[k].row > 0 =>
             \E j \in 1..(k - 1) : log[j].e = "append" /\ log[j].row = log[k].row - 1

\* C5 witness: both requests were sent for the first row, its feature was
\* appended, and the Find Place request of the second row followed
C5_Witness ==
    /\ Happened("find_req", 0) /\ Happened("details_req", 0)
    /\ Happened("find_req", 1) /\ Happened("append", 1)

Writes == {k \in DOMAIN log : log[k].e = "write"}

\* C6: no request and no file when a dialog is cancelled or no API key is set;
\* the file is written exactly once, after every row, and no request follows it.
C6_OrderAndSingleWrite ==
    /\ (csv_path = None \/ geojson_path = None \/ api_key = None) =>
           (NumRequests = 0 /\ outfile = None /\ Writes = {})
    /\ Cardinality(Writes) <= 1
    /\ \A k \in Writes :
           /\ k = Len(log)
           /\ \A r \in 0..(Len(rows) - 1) : Happened("append", r)
    /\ Ended => Cardinality(Writes) = 1 /\ outfile # None

FindSkipped(r) == Happened("append", r) /\ ~Happened("find_call", r)

DetailsSkipped(r) ==
    /\ Happened("append", r)
    /\ FoundPlaceId(r)
    /\ ~Happened("details_req", r) /\ ~Happened("details_err", r)

LoopEnded == pc = "done" \/ (pc = "row" /\ i >= Len(rows))

\* C7: after the loop limit_reached holds iff a lookup step was skipped for the
\* cap; once limit_reached holds, request_count = API_REQUEST_LIMIT, no request
\* is sent any more and every feature appended is unlocated.
C7_LimitReached ==
    /\ [](LoopEnded =>
            (limit_reached <=>
                \E r \in 0..(Len(rows) - 1) : FindSkipped(r) \/ DetailsSkipped(r)))
    /\ [](limit_reached => request_count = API_REQUEST_LIMIT)
    /\ [][limit_reached =>
            /\ limit_reached'
            /\ request_count' = request_count
            /\ Requests' = Requests
            /\ Len(features') > Len(features) => Unlocated(features'[Len(features')])]_vars

\* C7 witness: a finished run where Place Details was skipped for the cap on one
\* row and Find Place on a later one
C7_Witness ==
    /\ pc = "done"
    /\ limit_reached
    /\ \E r, q \in 0..(Len(rows) - 1) : r < q /\ DetailsSkipped(r) /\ FindSkipped(q)

\* C8: between any two API requests of a run there is a REQUEST_DELAY_S sleep.
C8_SleepBetweenRequests ==
    \A j, k \in Requests :
        j < k => \E m \in (j + 1)..(k - 1) : log[m].e = "sleep"

\* C9: request_count is the number of HTTP requests sent so far (stated for the
\* runs in which no request raised).
C9_CountIsRequestsSent ==
    pc # "crashed" => request_count = NumRequests

\* C10: every feature has a non-empty google_maps_url or a non-empty name.
C10_FeatureIdentifiesRow ==
    \A k \in DOMAIN features :
        \/ features[k].properties.google_maps_url # <<>>
        \/ /\ "name" \in DOMAIN features[k].properties
           /\ features[k].properties.name # <<>>

\* C10 witness: a written file of a CSV with a dropped blank row, holding a
\* feature without URL and a feature without name
C10_Witness ==
    /\ outfile # None
    /\ \E k \in DOMAIN csv : ~NonBlank(csv[k])
    /\ \E k \in DOMAIN features : features[k].properties.google_maps_url = <<>>
    /\ \E k \in DOMAIN features : "name" \notin DOMAIN features[k].properties

====
